---- MODULE Spec2Model ----
(***************************************************************************)
(* Model of the Tally webhook receiver (src/api/tally.js).                 *)
(*                                                                         *)
(* Every inbound request is an independent invocation of module.exports.   *)
(* An invocation runs from one `await` to the next without interruption,   *)
(* so each store call (with the local code that follows it up to the next  *)
(* store call) is one atomic action.  The remote store (Supabase/Postgres) *)
(* is the only shared state: tables weddings (read only), submissions_raw, *)
(* households and guests.                                                  *)
(*                                                                         *)
(* JavaScript values are tagged records: Null, Str(s), Num(n), Arr(a).     *)
(* Strings are TLA+ strings, handled character by character with Len and   *)
(* SubSeq.  Timestamps (updated_at, created_at) are left out: no code path *)
(* reads them.                                                             *)
(***************************************************************************)
EXTENDS Integers, Sequences, FiniteSets, TLC

(***************************************************************************)
(* JavaScript values                                                       *)
(***************************************************************************)
Null == [k |-> "null"]
Str(s) == [k |-> "str", s |-> s]
Num(n) == [k |-> "num", n |-> n]
Arr(a) == [k |-> "arr", a |-> a]

IsNull(v) == v.k = "null"
IsStr(v) == v.k = "str"
IsNum(v) == v.k = "num"
IsArr(v) == v.k = "arr"

\* JavaScript truthiness of a value: null, "" and 0 are falsy.
Truthy(v) ==
  CASE IsNull(v) -> FALSE
    [] IsStr(v) -> v.s # ""
    [] IsNum(v) -> v.n # 0
    [] OTHER -> TRUE

\* a || b
Or(a, b) == IF Truthy(a) THEN a ELSE b

(***************************************************************************)
(* Strings                                                                 *)
(***************************************************************************)
CharAt(s, i) == SubSeq(s, i, i)

DigitChars == {"0", "1", "2", "3", "4", "5", "6", "7", "8", "9"}
HexChars == DigitChars \cup {"a", "b", "c", "d", "e", "f"}
WhiteChars == {" ", "\t", "\n"}

UpperAlphabet == "ABCDEFGHIJKLMNOPQRSTUVWXYZ"
LowerAlphabet == "abcdefghijklmnopqrstuvwxyz"
UpperChars == {CharAt(UpperAlphabet, i) : i \in 1..Len(UpperAlphabet)}
LowerOf ==
  [c \in UpperChars |->
     CharAt(LowerAlphabet, CHOOSE i \in 1..Len(UpperAlphabet) : CharAt(UpperAlphabet, i) = c)]

\* One character of String.prototype.toLowerCase().
LowerChar(c) == IF c \in UpperChars THEN LowerOf[c] ELSE c

RECURSIVE ToLowerCase(_)
ToLowerCase(s) ==
  IF s = "" THEN "" ELSE LowerChar(CharAt(s, 1)) \o ToLowerCase(SubSeq(s, 2, Len(s)))

RECURSIVE TrimStart(_)
TrimStart(s) ==
  IF s = "" THEN ""
  ELSE IF CharAt(s, 1) \in WhiteChars THEN TrimStart(SubSeq(s, 2, Len(s))) ELSE s

RECURSIVE TrimEnd(_)
TrimEnd(s) ==
  IF s = "" THEN ""
  ELSE IF CharAt(s, Len(s)) \in WhiteChars THEN TrimEnd(SubSeq(s, 1, Len(s) - 1)) ELSE s

\* String.prototype.trim()
Trim(s) == TrimEnd(TrimStart(s))

\* s.replace(/\D/g, "")
RECURSIVE StripNonDigits(_)
StripNonDigits(s) ==
  IF s = "" THEN ""
  ELSE (IF CharAt(s, 1) \in DigitChars THEN CharAt(s, 1) ELSE "")
       \o StripNonDigits(SubSeq(s, 2, Len(s)))

\* s.includes(sub)
Includes(s, sub) ==
  \E i \in 1..(Len(s) - Len(sub) + 1) : SubSeq(s, i, i + Len(sub) - 1) = sub

\* Decimal digits of a natural number, as String(n) writes them.
RECURSIVE NatToString(_)
NatToString(n) ==
  IF n < 10 THEN CharAt("0123456789", n + 1)
  ELSE NatToString(n \div 10) \o CharAt("0123456789", (n % 10) + 1)

\* String(v) for the values that reach it (a string, a number or an array).
RECURSIVE ToStr(_)
RECURSIVE JoinComma(_)
JoinComma(a) ==
  IF a = <<>> THEN ""
  ELSE IF Len(a) = 1 THEN ToStr(a[1])
  ELSE ToStr(a[1]) \o "," \o JoinComma(Tail(a))
ToStr(v) ==
  CASE IsStr(v) -> v.s
    [] IsNum(v) -> NatToString(v.n)
    [] IsArr(v) -> JoinComma(v.a)
    [] OTHER -> ""

\* A check that takes any string for an identifier.
isUuidAnyString(v) == IsStr(v)

\* isUuid: a string matching
\* /^[0-9a-f]{8}-[0-9a-f]{4}-[1-5][0-9a-f]{3}-[89ab][0-9a-f]{3}-[0-9a-f]{12}$/i
UuidLength == 36
isUuid(v) ==
  /\ IsStr(v)
  /\ Len(v.s) = UuidLength
  /\ LET t == ToLowerCase(v.s)
     IN \A i \in 1..UuidLength :
          CASE i \in {9, 14, 19, 24} -> CharAt(t, i) = "-"
            [] i = 15 -> CharAt(t, i) \in {"1", "2", "3", "4", "5"}
            [] i = 20 -> CharAt(t, i) \in {"8", "9", "a", "b"}
            [] OTHER -> CharAt(t, i) \in HexChars

(***************************************************************************)
(* Extractors                                                              *)
(*                                                                         *)
(* A request body is [submissionId, responseId, eventId, fields] where     *)
(* fields is body.data.fields, a sequence of [label, value, options].      *)
(***************************************************************************)
getFieldsArray(body) == body.fields

\* fields.find(f => f.label === label) || null, as the field's index (0: none)
FieldIndex(body, label) ==
  LET fs == getFieldsArray(body)
  IN IF \E i \in 1..Len(fs) : fs[i].label = label
     THEN CHOOSE i \in 1..Len(fs) :
            /\ fs[i].label = label
            /\ \A j \in 1..(i - 1) : fs[j].label # label
     ELSE 0

HasField(body, label) == FieldIndex(body, label) # 0

findFieldByLabel(body, label) == getFieldsArray(body)[FieldIndex(body, label)]

\* findFieldByLabel(body, label)?.value ?? null
FieldValue(body, label) ==
  IF HasField(body, label) THEN findFieldByLabel(body, label).value ELSE Null

extractPublicCode(body) == FieldValue(body, "w")

extractFormType(body) == FieldValue(body, "form_type")

extractHouseId(body) == FieldValue(body, "house_id")

extractProviderSubmissionId(body) ==
  Or(Or(Or(body.submissionId, body.responseId), body.eventId), Null)

\* The text of option id v in options (a sequence of [id, text]), or v itself.
OptionText(options, v) ==
  IF \E i \in 1..Len(options) : options[i].id = v
  THEN LET i == CHOOSE j \in 1..Len(options) :
                  /\ options[j].id = v
                  /\ \A m \in (j + 1)..Len(options) : options[m].id # v
       IN options[i].text
  ELSE v

RECURSIVE MapOptions(_, _)
MapOptions(options, a) ==
  IF a = <<>> THEN <<>>
  ELSE LET t == OptionText(options, Head(a))
       IN (IF IsNull(t) THEN <<>> ELSE <<t>>) \o MapOptions(options, Tail(a))

\* resolveOptionTexts(field), field given by its label (null when absent)
resolveOptionTexts(body, label) ==
  IF ~HasField(body, label) THEN Null
  ELSE LET field == findFieldByLabel(body, label)
       IN CASE IsStr(field.value) \/ IsNum(field.value) -> field.value
            [] IsArr(field.value) -> Arr(MapOptions(field.options, field.value.a))
            [] OTHER -> Null

RECURSIVE FilterNonBlankStrings(_)
FilterNonBlankStrings(a) ==
  IF a = <<>> THEN <<>>
  ELSE (IF IsStr(Head(a)) /\ Len(Trim(Head(a).s)) > 0 THEN <<Head(a)>> ELSE <<>>)
       \o FilterNonBlankStrings(Tail(a))

\* [firstName, lastName].filter(Boolean).join(" ").trim() || null
PrimaryName(firstName, lastName) ==
  LET parts == (IF Truthy(firstName) THEN <<ToStr(firstName)>> ELSE <<>>)
               \o (IF Truthy(lastName) THEN <<ToStr(lastName)>> ELSE <<>>)
      joined == IF parts = <<>> THEN ""
                ELSE IF Len(parts) = 1 THEN parts[1]
                ELSE parts[1] \o " " \o parts[2]
  IN Or(Str(Trim(joined)), Null)

extractContactSheetFields(body) ==
  [primary_name |-> PrimaryName(FieldValue(body, "first_name"), FieldValue(body, "last_name")),
   phone_raw |-> FieldValue(body, "phone_number"),
   email_raw |-> FieldValue(body, "email"),
   address_line_1 |-> FieldValue(body, "address_line_1"),
   address_line_2 |-> FieldValue(body, "address_line_2"),
   city |-> FieldValue(body, "city"),
   state |-> FieldValue(body, "state"),
   postal_code |-> FieldValue(body, "postal_code"),
   country |-> FieldValue(body, "country")]

\* Number(s) for the decimal strings the model submits (NaN is not modelled).
RECURSIVE ParseNat(_)
ParseNat(s) ==
  IF s = "" THEN 0
  ELSE LET d == CHOOSE i \in 0..9 : CharAt("0123456789", i + 1) = CharAt(s, Len(s))
       IN 10 * ParseNat(SubSeq(s, 1, Len(s) - 1)) + d

extractRsvpFields(body) ==
  LET rsvpResolved == resolveOptionTexts(body, "rsvp_status")
      eventsResolved == resolveOptionTexts(body, "events_attending")
      rsvpText == IF IsArr(rsvpResolved)
                  THEN (IF rsvpResolved.a = <<>> THEN Null ELSE rsvpResolved.a[1])
                  ELSE rsvpResolved
      partySize == FieldValue(body, "party_size")
  IN [rsvp_status |-> IF IsStr(rsvpText) THEN rsvpText ELSE Null,
      events_attending |-> IF IsArr(eventsResolved)
                           THEN Arr(FilterNonBlankStrings(eventsResolved.a))
                           ELSE Null,
      dietary_notes |-> FieldValue(body, "dietary_notes"),
      questions |-> FieldValue(body, "questions"),
      party_size |-> IF IsNum(partySize) THEN partySize
                     ELSE IF IsStr(partySize) /\ Trim(partySize.s) # ""
                          THEN Num(ParseNat(Trim(partySize.s)))
                          ELSE Null]

(***************************************************************************)
(* Normalizers                                                             *)
(***************************************************************************)
MinPhoneDigits == 10

\* A normalizer that never adds the country code.
normalizePhoneNoCountryCode(phone) ==
  IF ~Truthy(phone) THEN Null
  ELSE LET digits == StripNonDigits(ToStr(phone))
       IN IF Len(digits) < MinPhoneDigits THEN Null ELSE Str("+" \o digits)

normalizePhone(phone) ==
  IF ~Truthy(phone) THEN Null
  ELSE LET digits == StripNonDigits(ToStr(phone))
       IN IF Len(digits) < MinPhoneDigits THEN Null
          ELSE IF Len(digits) = MinPhoneDigits THEN Str("+1" \o digits)
          ELSE Str("+" \o digits)

normalizeEmail(email) ==
  IF ~Truthy(email) THEN Null ELSE Str(ToLowerCase(Trim(ToStr(email))))

\* A normalizer that lets any non-empty answer through, trimmed and lower-cased.
normalizeRsvpStatusLax(s) ==
  IF ~Truthy(s) THEN Null ELSE Str(ToLowerCase(Trim(ToStr(s))))

normalizeRsvpStatus(s) ==
  IF ~Truthy(s) THEN Null
  ELSE LET v == ToLowerCase(Trim(ToStr(s)))
       IN IF v = "yes" \/ v = "y" THEN Str("yes")
          ELSE IF v = "no" \/ v = "n" THEN Str("no")
          ELSE Null

(***************************************************************************)
(* The store                                                               *)
(***************************************************************************)
WeddingA == "aaaaaaaa-aaaa-4aaa-8aaa-aaaaaaaaaaaa"
WeddingB == "bbbbbbbb-bbbb-4bbb-8bbb-bbbbbbbbbbbb"

\* Table weddings (public_code -> wedding_id); the handler only reads it.
\* The row of OLD1 holds an identifier that is no UUID.
weddings ==
  << [public_code |-> "TT01", wedding_id |-> Str(WeddingA)],
     [public_code |-> "TT02", wedding_id |-> Str(WeddingB)],
     [public_code |-> "OLD1", wedding_id |-> Str("legacy-0007")] >>

\* The id the store gives the n-th household row.
HouseholdUuid(n) == "00000000-0000-4000-8000-00000000000" \o NatToString(n)

\* Failure messages of the store.
ErrTimeout == "upstream request timeout"
ErrDuplicateKey == "duplicate key value violates unique constraint"
ErrUniqueOther == "could not access Unique index"
ErrMultipleRows == "JSON object requested, multiple (or no) rows returned"

\* .maybeSingle(): no row gives data null, one row gives the row, more an error.
MaybeFirst(rows) ==
  [error |-> "", rows |-> IF rows = <<>> THEN <<>> ELSE <<rows[1]>>]

MaybeSingle(rows) ==
  IF Len(rows) > 1 THEN [error |-> ErrMultipleRows, rows |-> <<>>]
  ELSE [error |-> "", rows |-> rows]

\* The uniqueness constraint of submissions_raw on
\* (wedding_id, provider, provider_submission_id); a null id never conflicts.
UniqueViolation(ledger, wid, provider, psid) ==
  /\ ~IsNull(psid)
  /\ \E i \in 1..Len(ledger) :
       /\ ledger[i].wedding_id = wid
       /\ ledger[i].provider = provider
       /\ ledger[i].provider_submission_id = psid

(***************************************************************************)
(* Requests                                                                *)
(***************************************************************************)
Field(label, value) == [label |-> label, value |-> value, options |-> <<>>]

OptionField(label, value, options) ==
  [label |-> label, value |-> value, options |-> options]

Post(psid, fields) ==
  [method |-> "POST", submissionId |-> psid, responseId |-> Null,
   eventId |-> Null, fields |-> fields]

House1 == HouseholdUuid(1)
House2 == HouseholdUuid(2)
House3 == HouseholdUuid(3)
HouseNone == HouseholdUuid(9)

YesNoOptions == << [id |-> Str("opt-y"), text |-> Str("Yes")],
                   [id |-> Str("opt-n"), text |-> Str("No")] >>

\* Requests that stop before or at the ledger, or are routed raw_only.
PlainRequests ==
  { [Post(Null, <<>>) EXCEPT !.method = "GET"],
    Post(Str("s0"), <<>>),
    Post(Str("s0"), << Field("w", Str("  ")) >>),
    Post(Str("s0"), << Field("w", Num(7)) >>),
    Post(Str("s0"), << Field("w", Str("ZZ99")) >>),
    Post(Str("s0"), << Field("w", Str("OLD1")) >>),
    Post(Str("s1"), << Field("w", Str("TT01")) >>),
    Post(Str("s1"), << Field("w", Str("TT02")), Field("form_type", Str("survey")) >>),
    [Post(Null, << Field("w", Str("TT01")), Field("form_type", Str("survey")) >>)
       EXCEPT !.eventId = Str("s1")],
    Post(Null, << Field("w", Str("TT01")), Field("form_type", Num(1)) >>) }

ContactRequests ==
  { Post(Str("c1"), << Field("w", Str("TT01")), Field("form_type", Str("contact_sheet")),
                       Field("phone_number", Str("555-000-1111")),
                       Field("first_name", Str("Jane")), Field("last_name", Str("Doe")) >>),
    Post(Str("c2"), << Field("w", Str("TT01")), Field("form_type", Str("contact_sheet")),
                       Field("phone_number", Str("1 (555) 000-1111")),
                       Field("email", Str(" Ravi@X.org ")),
                       Field("city", Str("Pune")) >>),
    Post(Str("c3"), << Field("w", Str("TT01")), Field("form_type", Str("contact_sheet")),
                       Field("phone_number", Str("123")), Field("email", Str(" ")) >>),
    Post(Str("c4"), << Field("w", Str("TT01")), Field("form_type", Str("contact_sheet")),
                       Field("email", Str("asha@x.org")), Field("last_name", Str("Rao")) >>),
    Post(Str("c5"), << Field("w", Str("TT01")), Field("form_type", Str("contact_sheet")),
                       Field("phone_number", Str("5550002222")),
                       Field("email", Str("RAVI@x.org")) >>),
    Post(Null, << Field("w", Str("TT01")), Field("form_type", Str("contact_sheet")),
                  Field("phone_number", Str("555.000.2222")) >>),
    Post(Str("c1"), << Field("w", Str("TT02")), Field("form_type", Str("contact_sheet")),
                       Field("phone_number", Str("5550001111")) >>) }

RsvpRequests ==
  { Post(Str("v1"), << Field("w", Str("TT01")), Field("form_type", Str("rsvp")),
                       Field("house_id", Str(House1)), Field("rsvp_status", Str(" Yes ")) >>),
    Post(Str("v2"), << Field("w", Str("TT01")), Field("form_type", Str("rsvp")),
                       Field("house_id", Str(House1)),
                       OptionField("rsvp_status", Arr(<<Str("opt-n")>>), YesNoOptions),
                       Field("dietary_notes", Str("Jain")),
                       Field("questions", Str("")),
                       Field("events_attending", Arr(<<Str("Sangeet"), Str(" ")>>)),
                       Field("party_size", Str("3")) >>),
    Post(Str("v3"), << Field("w", Str("TT02")), Field("form_type", Str("rsvp")),
                       Field("house_id", Str(House1)), Field("rsvp_status", Str("y")),
                       Field("dietary_notes", Str("Jain")) >>),
    Post(Str("v4"), << Field("w", Str("TT02")), Field("form_type", Str("rsvp")),
                       Field("house_id", Str(HouseNone)), Field("rsvp_status", Str("y")),
                       Field("dietary_notes", Str("Jain")) >>),
    Post(Str("v5"), << Field("w", Str("TT01")), Field("form_type", Str("rsvp")),
                       Field("house_id", Str("house-1")), Field("rsvp_status", Str("maybe")) >>),
    Post(Str("v6"), << Field("w", Str("TT01")), Field("form_type", Str("rsvp")),
                       Field("house_id", Str(House1)), Field("rsvp_status", Str("maybe")),
                       Field("dietary_notes", Str("Jain")) >>),
    Post(Str("v7"), << Field("w", Str("TT01")), Field("form_type", Str("rsvp")),
                       Field("house_id", Str(House1)) >>),
    Post(Str("v8"), << Field("w", Str("TT01")), Field("form_type", Str("rsvp")),
                       Field("rsvp_status", Str("no")) >>) }

Requests == PlainRequests \cup ContactRequests \cup RsvpRequests

\* Requests by the (first) provider submission id they carry.
WithId(requests, ids) == {r \in requests : extractProviderSubmissionId(r) \in ids}

\* The deliveries of Spec: the plain requests, two contact sheets (one inserts,
\* one updates) and an RSVP.
PlainPool ==
  PlainRequests \cup WithId(ContactRequests, {Str("c1"), Str("c4")})
                \cup WithId(RsvpRequests, {Str("v1")})

\* The deliveries of SpecRsvp: every RSVP and two contact sheets.
RsvpPool == RsvpRequests \cup WithId(ContactRequests, {Str("c1"), Str("c4")})

\* The deliveries of SpecContact: every contact sheet and one RSVP.
ContactPool == ContactRequests \cup WithId(RsvpRequests, {Str("v1")})

\* The deliveries of SpecConcurrent: two contact sheets that share a phone and
\* two RSVPs that answer differently for one household.
ConcurrentPool ==
  {r \in WithId(Requests, {Str("c1"), Str("c2"), Str("v1"), Str("v2")}) :
     /\ extractPublicCode(r) = Str("TT01")
     /\ r.submissionId # Null}

\* The deliveries of SpecRejected: requests the handler or a processor turns
\* down (public code missing, blank, unknown or of a wedding with a malformed id;
\* no contact key; malformed house_id; invalid status), and two contact sheets and
\* an RSVP that are applied.
RejectedPool ==
  {r \in WithId(PlainRequests, {Str("s0")}) : ~IsNum(extractPublicCode(r))}
    \cup WithId(ContactRequests, {Str("c1"), Str("c3"), Str("c4")})
    \cup WithId(RsvpRequests, {Str("v1"), Str("v5"), Str("v6")})

\* The characters phone numbers are made of in SpecPhone.
PhoneAlphabet == {"5", "-"}

MaxPhoneLength == 11

\* Every string over PhoneAlphabet of at most n characters.
RECURSIVE StringsUpTo(_)
StringsUpTo(n) ==
  IF n = 0 THEN {""}
  ELSE LET shorter == StringsUpTo(n - 1)
       IN shorter \cup {s \o c : s \in shorter, c \in PhoneAlphabet}

\* The values submitted as phone_number in SpecPhone: no value, numbers, every
\* string over PhoneAlphabet up to MaxPhoneLength, and some written phone numbers.
PhoneInputs ==
  {Null, Num(0), Num(123)}
    \cup {Str(s) : s \in StringsUpTo(MaxPhoneLength)}
    \cup {Str("555-123-4567"), Str("14155550123"), Str("123"),
          Str("+44 20 7946 0958"), Str("(415) 555-0123 x9")}

\* The deliveries of SpecPhone: contact sheets with a phone_number and no email.
PhonePool ==
  {Post(Null, << Field("w", Str("TT01")), Field("form_type", Str("contact_sheet")),
                 Field("phone_number", v) >>) : v \in PhoneInputs}

(***************************************************************************)
(* State                                                                   *)
(***************************************************************************)
MaxRequests == 2
MaxConcurrentRequests == 2
MaxContactRequests == 3
MaxFaults == 1

Max(S) == CHOOSE n \in S : \A m \in S : m <= n

\* Invocation slots; a slot handles one request.
Procs == 1..Max({MaxRequests, MaxConcurrentRequests, MaxContactRequests})

VARIABLES
  submissions_raw,  \* table submissions_raw: sequence of rows, id = position
  households,       \* table households: sequence of rows
  guests,           \* table guests: sequence of rows
  pc,               \* pc[p]: where invocation p stands
  request,          \* request[p]: req.method and req.body of invocation p
  weddingId,        \* weddingId[p]
  rawSubmissionId,  \* rawSubmissionId[p]
  existing,         \* existing[p]: the id found by upsertHouseholdFromContactSheet
  response,         \* response[p]: what invocation p answered
  ops,              \* ops[p]: the store calls invocation p made, in order
  fault,            \* fault[p]: the store failed a call of p for an outside reason
  seen,             \* seen[p]: the tables as they were when p began
  limits            \* how many invocations run at once and in total, how many
                    \* calls the store fails for an outside reason, and which
                    \* requests are delivered

store == <<submissions_raw, households, guests>>
locals == <<request, weddingId, rawSubmissionId, existing, response, seen>>
vars == <<submissions_raw, households, guests, pc, request, weddingId,
          rawSubmissionId, existing, response, ops, fault, seen, limits>>

NoResponse ==
  [status |-> 0, json |-> FALSE, ok |-> FALSE, routed |-> "", action |-> "",
   household_id |-> Null, guests_updated |-> 0, error |-> "", received |-> Null]

\* An answer that hides the message behind a generic one.
ErrorResponseGeneric(status, error) ==
  [NoResponse EXCEPT !.status = status, !.json = TRUE, !.error = "Server error"]

\* res.status(status).json({ ok: false, error })
ErrorResponse(status, error) ==
  [NoResponse EXCEPT !.status = status, !.json = TRUE, !.error = error]

\* ... with the value the answer echoes (received_w, received_house_id,
\* received_rsvp_status)
Rejection(status, error, received) ==
  [ErrorResponse(status, error) EXCEPT !.received = received]

HouseholdRow(id, wid, name, phone, email, last) ==
  [id |-> id, wedding_id |-> wid, primary_name |-> Str(name),
   phone_raw |-> phone, phone_normalized |-> normalizePhone(phone),
   email_raw |-> email, email_normalized |-> normalizeEmail(email),
   address_line_1 |-> Null, address_line_2 |-> Null, city |-> Null,
   state |-> Null, postal_code |-> Null, country |-> Null,
   last_submission_id |-> last]

GuestRow(id, hid, wid, status, dietary, questions) ==
  [id |-> id, household_id |-> hid, wedding_id |-> wid, rsvp_status |-> status,
   dietary_notes |-> dietary, questions |-> questions,
   events_attending |-> Null, party_size |-> Null]

InitHouseholds ==
  << HouseholdRow(House1, WeddingA, "Asha Rao", Str("555-000-2222"), Str("asha@x.org"), Null),
     HouseholdRow(House2, WeddingA, "Ravi Iyer", Str("5550004444"), Str("ravi@x.org"), Null),
     HouseholdRow(House3, WeddingB, "Bela Shah", Str("5550001111"), Str("ravi@x.org"), Null) >>

InitGuests ==
  << GuestRow("g1", House1, WeddingA, Null, Str("Vegan"), Null),
     GuestRow("g2", House1, WeddingA, Str("no"), Null, Str("Parking?")),
     GuestRow("g3", House2, WeddingA, Null, Null, Null),
     GuestRow("g4", House3, WeddingB, Null, Str("Halal"), Null) >>

InitStore ==
  /\ submissions_raw = <<>>
  /\ households = InitHouseholds
  /\ guests = InitGuests

InitInvocations ==
  /\ pc = [p \in Procs |-> "idle"]
  /\ request = [p \in Procs |-> Post(Null, <<>>)]
  /\ weddingId = [p \in Procs |-> Null]
  /\ rawSubmissionId = [p \in Procs |-> Null]
  /\ existing = [p \in Procs |-> Null]
  /\ response = [p \in Procs |-> NoResponse]
  /\ ops = [p \in Procs |-> <<>>]
  /\ fault = [p \in Procs |-> FALSE]
  /\ seen = [p \in Procs |-> <<>>]

\* Requests of every kind, handled one at a time; the store may fail.
Init ==
  /\ InitStore
  /\ InitInvocations
  /\ limits = [inflight |-> 1, total |-> MaxRequests, faults |-> MaxFaults,
               pool |-> "plain"]

InFlight == {p \in Procs : pc[p] \notin {"idle", "done"}}
Received == {p \in Procs : pc[p] # "idle"}
Answered == {p \in Procs : pc[p] = "done"}

\* One store call of invocation p, appended to its log with the error the
\* store answered ("" when it served the call).
Logged(p, table, op, error) ==
  [ops EXCEPT ![p] = Append(@, [table |-> table, op |-> op, error |-> error])]

\* return res.status(...)...
Respond(p, r) ==
  /\ pc' = [pc EXCEPT ![p] = "done"]
  /\ response' = [response EXCEPT ![p] = r]

Goto(p, label) ==
  /\ pc' = [pc EXCEPT ![p] = label]
  /\ UNCHANGED response

\* What the store may answer to a call that it could serve: "" (served) or,
\* while the failures of the run are not used up, one of `failures`.
MayFail(failures) ==
  IF Cardinality({p \in Procs : fault[p]}) < limits.faults THEN failures \cup {""} ELSE {""}

StoreFailures == MayFail({ErrTimeout})

\* A contact sheet with an email and no phone.
EmailOnlyRequest ==
  Post(Str("c6"), << Field("w", Str("TT01")), Field("form_type", Str("contact_sheet")),
                     Field("email", Str("ravi@x.org")) >>)

DuplicatePool == ContactPool \cup {EmailOnlyRequest}

Deliveries ==
  CASE limits.pool = "plain" -> PlainPool
    [] limits.pool = "rsvp" -> RsvpPool
    [] limits.pool = "concurrent" -> ConcurrentPool
    [] limits.pool = "contact" -> ContactPool
    [] limits.pool = "rejected" -> RejectedPool
    [] limits.pool = "phone" -> PhonePool
    [] limits.pool = "duplicate" -> DuplicatePool

(***************************************************************************)
(* module.exports: method, public code                                     *)
(***************************************************************************)
MsgMissingCode ==
  "Missing public wedding code. Expect a hidden field labeled 'w' (e.g. TT01)."
MsgUnknownCode == "Unknown public wedding code (no matching wedding found)."

Receive(p) ==
  /\ pc[p] = "idle"
  /\ \A q \in Procs : q < p => pc[q] # "idle"
  /\ Cardinality(Received) < limits.total
  /\ Cardinality(InFlight) < limits.inflight
  /\ \E req \in Deliveries :
       /\ request' = [request EXCEPT ![p] = req]
       /\ seen' = [seen EXCEPT ![p] = store]
       /\ LET publicCode == extractPublicCode(req)
          IN IF req.method # "POST"
             THEN Respond(p, [NoResponse EXCEPT !.status = 200])
             ELSE IF ~IsStr(publicCode) \/ Len(Trim(publicCode.s)) = 0
             THEN Respond(p, Rejection(400, MsgMissingCode, publicCode))
             ELSE Goto(p, "lookup_wedding")
  /\ UNCHANGED <<store, weddingId, rawSubmissionId, existing, ops, fault, limits>>

publicCodeOf(p) == extractPublicCode(request[p])
formTypeOf(p) == extractFormType(request[p])
providerSubmissionIdOf(p) == extractProviderSubmissionId(request[p])

\* from("weddings").select("wedding_id").eq("public_code", publicCode).maybeSingle()
LookupWedding(p) ==
  /\ pc[p] = "lookup_wedding"
  /\ \E failure \in StoreFailures :
       LET found == MaybeSingle(SelectSeq(weddings,
                      LAMBDA w : w.public_code = publicCodeOf(p).s))
           lookupError == IF failure # "" THEN failure ELSE found.error
           wid == IF found.rows = <<>> THEN Null ELSE found.rows[1].wedding_id
       IN /\ ops' = Logged(p, "weddings", "select", lookupError)
          /\ fault' = [fault EXCEPT ![p] = @ \/ failure # ""]
          /\ IF lookupError # ""
             THEN /\ Respond(p, ErrorResponse(500, lookupError))
                  /\ UNCHANGED weddingId
             ELSE IF ~isUuid(wid)
             THEN /\ Respond(p, Rejection(400, MsgUnknownCode, publicCodeOf(p)))
                  /\ UNCHANGED weddingId
             ELSE /\ Goto(p, "insert_raw")
                  /\ weddingId' = [weddingId EXCEPT ![p] = wid]
  /\ UNCHANGED <<store, request, rawSubmissionId, existing, seen, limits>>

(***************************************************************************)
(* upsertHouseholdFromContactSheet                                         *)
(***************************************************************************)
MsgMissingContact ==
  "Missing phone_number and email. Provide at least one so we can dedupe/update the household."

phoneNormalizedOf(body) == normalizePhone(extractContactSheetFields(body).phone_raw)
emailNormalizedOf(body) == normalizeEmail(extractContactSheetFields(body).email_raw)

\* A check of the values as submitted, before normalization.
ContactValidationErrorRaw(body) ==
  IF /\ ~Truthy(extractContactSheetFields(body).phone_raw)
     /\ ~Truthy(extractContactSheetFields(body).email_raw)
  THEN MsgMissingContact
  ELSE ""

\* The check before any store call: "" when the submission may proceed.
ContactValidationError(body) ==
  IF ~Truthy(phoneNormalizedOf(body)) /\ ~Truthy(emailNormalizedOf(body))
  THEN MsgMissingContact
  ELSE ""

\* payload (without updated_at)
ContactPayload(body, wid, rawId) ==
  LET extracted == extractContactSheetFields(body)
  IN [wedding_id |-> wid.s,
      primary_name |-> Or(extracted.primary_name, Str("Unknown")),
      phone_raw |-> extracted.phone_raw,
      phone_normalized |-> phoneNormalizedOf(body),
      email_raw |-> extracted.email_raw,
      email_normalized |-> emailNormalizedOf(body),
      address_line_1 |-> extracted.address_line_1,
      address_line_2 |-> extracted.address_line_2,
      city |-> extracted.city,
      state |-> extracted.state,
      postal_code |-> extracted.postal_code,
      country |-> extracted.country,
      last_submission_id |-> rawId]

\* An update that writes only the columns the payload has a value for.
ApplyUpdateSparse(row, payload) ==
  [c \in DOMAIN row |->
     IF c \in DOMAIN payload /\ (c = "wedding_id" \/ payload[c] # Null)
     THEN payload[c]
     ELSE row[c]]

\* .update(payload) on one row: the columns of payload replace the row's.
ApplyUpdate(row, payload) ==
  [c \in DOMAIN row |-> IF c \in DOMAIN payload THEN payload[c] ELSE row[c]]

\* Where upsertHouseholdFromContactSheet goes once `existing` is known and the
\* lookup by email is not (or no longer) due.
AfterLookup(found) == IF found = <<>> THEN "hh_insert" ELSE "hh_update"

\* A lookup that compares the normalized phone with the phone as submitted.
HouseholdsByPhoneRaw(table, wid, phone) ==
  SelectSeq(table, LAMBDA h : h.wedding_id = wid.s /\ h.phone_raw = phone)

\* .select("id").eq("wedding_id", weddingId).eq("phone_normalized", phoneNormalized)
HouseholdsByPhone(table, wid, phone) ==
  SelectSeq(table, LAMBDA h : h.wedding_id = wid.s /\ h.phone_normalized = phone)

\* .select("id").eq("wedding_id", weddingId).eq("email_normalized", emailNormalized)
HouseholdsByEmail(table, wid, email) ==
  SelectSeq(table, LAMBDA h : h.wedding_id = wid.s /\ h.email_normalized = email)

LookupByPhone(p) ==
  /\ pc[p] = "hh_by_phone"
  /\ \E failure \in StoreFailures :
       LET found == MaybeSingle(HouseholdsByPhone(households, weddingId[p],
                                                  phoneNormalizedOf(request[p])))
           error == IF failure # "" THEN failure ELSE found.error
       IN /\ ops' = Logged(p, "households", "select", error)
          /\ fault' = [fault EXCEPT ![p] = @ \/ failure # ""]
          /\ IF error # ""
             THEN /\ Respond(p, ErrorResponse(500, error))
                  /\ UNCHANGED existing
             ELSE /\ existing' = [existing EXCEPT ![p] =
                       IF found.rows = <<>> THEN Null ELSE Str(found.rows[1].id)]
                  /\ IF found.rows = <<>> /\ Truthy(emailNormalizedOf(request[p]))
                     THEN Goto(p, "hh_by_email")
                     ELSE Goto(p, AfterLookup(found.rows))
  /\ UNCHANGED <<store, request, weddingId, rawSubmissionId, seen, limits>>

LookupByEmail(p) ==
  /\ pc[p] = "hh_by_email"
  /\ \E failure \in StoreFailures :
       LET found == MaybeSingle(HouseholdsByEmail(households, weddingId[p],
                                                  emailNormalizedOf(request[p])))
           error == IF failure # "" THEN failure ELSE found.error
       IN /\ ops' = Logged(p, "households", "select", error)
          /\ fault' = [fault EXCEPT ![p] = @ \/ failure # ""]
          /\ IF error # ""
             THEN /\ Respond(p, ErrorResponse(500, error))
                  /\ UNCHANGED existing
             ELSE /\ existing' = [existing EXCEPT ![p] =
                       IF found.rows = <<>> THEN Null ELSE Str(found.rows[1].id)]
                  /\ Goto(p, AfterLookup(found.rows))
  /\ UNCHANGED <<store, request, weddingId, rawSubmissionId, seen, limits>>

ContactSheetResponse(id, action) ==
  [NoResponse EXCEPT !.status = 200, !.json = TRUE, !.ok = TRUE,
                     !.routed = "contact_sheet", !.household_id = id, !.action = action]

\* from("households").update(payload).eq("id", existing.id)
UpdateHousehold(p) ==
  /\ pc[p] = "hh_update"
  /\ \E failure \in StoreFailures :
       LET payload == ContactPayload(request[p], weddingId[p], rawSubmissionId[p])
       IN /\ ops' = Logged(p, "households", "update", failure)
          /\ fault' = [fault EXCEPT ![p] = @ \/ failure # ""]
          /\ IF failure # ""
             THEN /\ Respond(p, ErrorResponse(500, failure))
                  /\ UNCHANGED households
             ELSE /\ households' = [i \in 1..Len(households) |->
                       IF households[i].id = existing[p].s
                       THEN ApplyUpdate(households[i], payload)
                       ELSE households[i]]
                  /\ Respond(p, ContactSheetResponse(existing[p], "updated"))
  /\ UNCHANGED <<submissions_raw, guests, request, weddingId, rawSubmissionId,
                 existing, seen, limits>>

\* An insert that looks for the phone again at the moment it writes and merges
\* into the household that holds it by then.
InsertHouseholdIfAbsent(p) ==
  /\ pc[p] = "hh_insert"
  /\ LET payload == ContactPayload(request[p], weddingId[p], rawSubmissionId[p])
         id == HouseholdUuid(Len(households) + 1)
         row == [c \in DOMAIN payload \cup {"id"} |->
                   IF c = "id" THEN id ELSE payload[c]]
         held == HouseholdsByPhone(households, weddingId[p], payload.phone_normalized)
     IN /\ ops' = Logged(p, "households", "insert", "")
        /\ UNCHANGED fault
        /\ IF Truthy(payload.phone_normalized) /\ held # <<>>
           THEN /\ households' = [i \in 1..Len(households) |->
                     IF households[i].id = held[1].id
                     THEN ApplyUpdate(households[i], payload)
                     ELSE households[i]]
                /\ Respond(p, ContactSheetResponse(Str(held[1].id), "updated"))
           ELSE /\ households' = Append(households, row)
                /\ Respond(p, ContactSheetResponse(Str(id), "inserted"))
  /\ UNCHANGED <<submissions_raw, guests, request, weddingId, rawSubmissionId,
                 existing, seen, limits>>

\* from("households").insert(payload).select("id").single()
InsertHousehold(p) ==
  /\ pc[p] = "hh_insert"
  /\ \E failure \in StoreFailures :
       LET payload == ContactPayload(request[p], weddingId[p], rawSubmissionId[p])
           id == HouseholdUuid(Len(households) + 1)
           row == [c \in DOMAIN payload \cup {"id"} |->
                     IF c = "id" THEN id ELSE payload[c]]
       IN /\ ops' = Logged(p, "households", "insert", failure)
          /\ fault' = [fault EXCEPT ![p] = @ \/ failure # ""]
          /\ IF failure # ""
             THEN /\ Respond(p, ErrorResponse(500, failure))
                  /\ UNCHANGED households
             ELSE /\ households' = Append(households, row)
                  /\ Respond(p, ContactSheetResponse(Str(id), "inserted"))
  /\ UNCHANGED <<submissions_raw, guests, request, weddingId, rawSubmissionId,
                 existing, seen, limits>>

(***************************************************************************)
(* updateGuestsFromRsvp                                                    *)
(***************************************************************************)
MsgInvalidHouse ==
  "Missing or invalid house_id. Expect a UUID in hidden field labeled 'house_id'."
MsgInvalidStatus ==
  "Missing or invalid rsvp_status. Expected option text 'Yes'/'No' (stored as yes/no)."
MsgHouseholdNotFound ==
  "Household not found for this wedding (invalid house_id for this w)."

rsvpStatusOf(body) == normalizeRsvpStatus(extractRsvpFields(body).rsvp_status)

\* The same checks, the status before the reference.
RsvpValidationErrorStatusFirst(body) ==
  IF ~Truthy(rsvpStatusOf(body)) THEN MsgInvalidStatus
  ELSE IF ~isUuid(extractHouseId(body)) THEN MsgInvalidHouse
  ELSE ""

\* The checks before any store call, in the order of the code: "" when the
\* submission may proceed.
RsvpValidationError(body) ==
  IF ~isUuid(extractHouseId(body)) THEN MsgInvalidHouse
  ELSE IF ~Truthy(rsvpStatusOf(body)) THEN MsgInvalidStatus
  ELSE ""

\* An update that sets every optional column, extracted or not.
RsvpUpdatePayloadDense(body) ==
  LET fields == extractRsvpFields(body)
      columns == {"rsvp_status", "dietary_notes", "questions", "events_attending"}
  IN [c \in columns |-> IF c = "rsvp_status" THEN rsvpStatusOf(body) ELSE fields[c]]

\* updatePayload (without updated_at): the columns the update sets.
RsvpUpdatePayload(body) ==
  LET fields == extractRsvpFields(body)
      columns == {"rsvp_status"}
                 \cup (IF fields.dietary_notes # Null THEN {"dietary_notes"} ELSE {})
                 \cup (IF fields.questions # Null THEN {"questions"} ELSE {})
                 \cup (IF fields.events_attending # Null THEN {"events_attending"} ELSE {})
  IN [c \in columns |-> IF c = "rsvp_status" THEN rsvpStatusOf(body) ELSE fields[c]]

\* A lookup by id alone, in every tenant.
HouseholdsByIdAnyTenant(table, houseId, wid) ==
  SelectSeq(table, LAMBDA h : h.id = houseId.s)

\* .select("id").eq("id", houseId).eq("wedding_id", weddingId)
HouseholdsById(table, houseId, wid) ==
  SelectSeq(table, LAMBDA h : h.id = houseId.s /\ h.wedding_id = wid.s)

\* from("households").select("id").eq("id", houseId).eq("wedding_id", weddingId)
\*   .maybeSingle()
FetchHousehold(p) ==
  /\ pc[p] = "rsvp_fetch"
  /\ \E failure \in StoreFailures :
       LET found == MaybeSingle(HouseholdsById(households, extractHouseId(request[p]),
                                               weddingId[p]))
           fetchError == IF failure # "" THEN failure ELSE found.error
       IN /\ ops' = Logged(p, "households", "select", fetchError)
          /\ fault' = [fault EXCEPT ![p] = @ \/ failure # ""]
          /\ IF fetchError # ""
             THEN Respond(p, ErrorResponse(500, fetchError))
             ELSE IF found.rows = <<>>
             THEN Respond(p, Rejection(404, MsgHouseholdNotFound,
                                       extractHouseId(request[p])))
             ELSE Goto(p, "rsvp_update")
  /\ UNCHANGED <<store, request, weddingId, rawSubmissionId, existing, seen, limits>>

\* A filter that leaves out the guests who have answered already.
TargetedGuestUnanswered(g, houseId, wid) ==
  /\ g.household_id = houseId.s
  /\ g.wedding_id = wid.s
  /\ g.rsvp_status = Null

\* A filter on the tenant alone: every guest of the wedding.
TargetedGuestOfTenant(g, houseId, wid) == g.wedding_id = wid.s

\* The guests an RSVP for (houseId, weddingId) targets.
TargetedGuest(g, houseId, wid) == g.household_id = houseId.s /\ g.wedding_id = wid.s

\* from("guests").update(updatePayload).eq("household_id", houseId)
\*   .eq("wedding_id", weddingId); no count is asked for, so count is null.
UpdateGuests(p) ==
  /\ pc[p] = "rsvp_update"
  /\ \E failure \in StoreFailures :
       LET houseId == extractHouseId(request[p])
           payload == RsvpUpdatePayload(request[p])
       IN /\ ops' = Logged(p, "guests", "update", failure)
          /\ fault' = [fault EXCEPT ![p] = @ \/ failure # ""]
          /\ IF failure # ""
             THEN /\ Respond(p, ErrorResponse(500, failure))
                  /\ UNCHANGED guests
             ELSE /\ guests' = [i \in 1..Len(guests) |->
                       IF TargetedGuest(guests[i], houseId, weddingId[p])
                       THEN ApplyUpdate(guests[i], payload)
                       ELSE guests[i]]
                  /\ Respond(p, [NoResponse EXCEPT
                       !.status = 200, !.json = TRUE, !.ok = TRUE, !.routed = "rsvp",
                       !.household_id = houseId, !.guests_updated = 0,
                       !.action = "updated_rsvp"])
  /\ UNCHANGED <<submissions_raw, households, request, weddingId, rawSubmissionId,
                 existing, seen, limits>>

(***************************************************************************)
(* module.exports: routing.  The code routes in the same turn in which the *)
(* ledger call returns, up to the answer or the processor's first store    *)
(* call; Route is that part of InsertRaw and RefetchRaw.                   *)
(***************************************************************************)
\* A router that takes every form type but contact_sheet for an RSVP.
RouteOfRsvpByDefault(formType) ==
  IF formType = Str("contact_sheet") THEN "contact_sheet" ELSE "rsvp"

\* The branch a form type takes.
RouteOf(formType) ==
  IF formType = Str("contact_sheet") THEN "contact_sheet"
  ELSE IF formType = Str("rsvp") THEN "rsvp"
  ELSE "raw_only"

\* What the rejection of an RSVP echoes: received_house_id or
\* received_rsvp_status.
RsvpReceived(body) ==
  IF ~isUuid(extractHouseId(body)) THEN extractHouseId(body)
  ELSE extractRsvpFields(body).rsvp_status

Route(p) ==
  LET body == request[p]
      routed == RouteOf(formTypeOf(p))
  IN IF routed = "contact_sheet"
     THEN IF ContactValidationError(body) # ""
          THEN Respond(p, ErrorResponse(400, ContactValidationError(body)))
          ELSE IF Truthy(phoneNormalizedOf(body))
          THEN Goto(p, "hh_by_phone")
          ELSE Goto(p, "hh_by_email")
     ELSE IF routed = "rsvp"
     THEN IF RsvpValidationError(body) # ""
          THEN Respond(p, Rejection(400, RsvpValidationError(body), RsvpReceived(body)))
          ELSE Goto(p, "rsvp_fetch")
     ELSE Respond(p, [NoResponse EXCEPT !.status = 200, !.json = TRUE, !.ok = TRUE,
                                        !.routed = "raw_only",
                                        !.received = formTypeOf(p)])

(***************************************************************************)
(* module.exports: the raw ledger                                          *)
(***************************************************************************)
Provider == "tally"

\* A handler that takes every failure of the insert for a duplicate.
isDuplicateAlways(message) == TRUE

\* A handler that recognises a duplicate by other words than the store's.
isDuplicateOtherWords(message) ==
  LET msg == ToLowerCase(message)
  IN Includes(msg, "already exists") \/ Includes(msg, "conflict")

\* msg.includes("duplicate") || msg.includes("unique"), msg lower-cased
isDuplicate(message) ==
  LET msg == ToLowerCase(message)
  IN Includes(msg, "duplicate") \/ Includes(msg, "unique")

\* The failures the store may answer to an insert into submissions_raw it could
\* serve: none, or a failure of its own, whatever its message.
InsertFailures == MayFail({ErrTimeout, ErrUniqueOther})

\* from("submissions_raw").insert({...}).select("id").single()
InsertRaw(p) ==
  /\ pc[p] = "insert_raw"
  /\ \E failure \in InsertFailures :
       LET psid == providerSubmissionIdOf(p)
           row == [id |-> Len(submissions_raw) + 1,
                   wedding_id |-> weddingId[p].s,
                   provider |-> Provider,
                   provider_submission_id |-> psid,
                   payload |-> request[p]]
           insertError ==
             IF failure # "" THEN failure
             ELSE IF UniqueViolation(submissions_raw, row.wedding_id, Provider, psid)
                  THEN ErrDuplicateKey
                  ELSE ""
       IN /\ ops' = Logged(p, "submissions_raw", "insert", insertError)
          /\ fault' = [fault EXCEPT ![p] = @ \/ failure # ""]
          /\ IF insertError = ""
             THEN /\ submissions_raw' = Append(submissions_raw, row)
                  /\ rawSubmissionId' = [rawSubmissionId EXCEPT ![p] = Num(row.id)]
                  /\ Route(p)
             ELSE /\ UNCHANGED submissions_raw
                  /\ UNCHANGED rawSubmissionId
                  /\ IF ~isDuplicate(insertError)
                     THEN Respond(p, ErrorResponse(500, insertError))
                     ELSE IF Truthy(psid)
                     THEN Goto(p, "refetch_raw")
                     ELSE Route(p)
  /\ UNCHANGED <<households, guests, request, weddingId, existing, seen, limits>>

\* .select("id").eq("wedding_id", weddingId).eq("provider", "tally")
\*   .eq("provider_submission_id", providerSubmissionId)
LedgerRowsFor(ledger, wid, psid) ==
  SelectSeq(ledger, LAMBDA r : /\ r.wedding_id = wid.s
                               /\ r.provider = Provider
                               /\ r.provider_submission_id = psid)

\* A handler that does not keep the id of the row it fetched.
ExistingRawIdDropped(rows) == Null

\* existingRaw?.id ?? null
ExistingRawId(rows) == IF rows = <<>> THEN Null ELSE Num(rows[1].id)

\* A duplicate branch that answers once the ledger entry is found again and
\* hands the submission to no processor.
RefetchRawAndStop(p) ==
  /\ pc[p] = "refetch_raw"
  /\ \E failure \in StoreFailures :
       LET found == MaybeSingle(LedgerRowsFor(submissions_raw, weddingId[p],
                                              providerSubmissionIdOf(p)))
           fetchError == IF failure # "" THEN failure ELSE found.error
       IN /\ ops' = Logged(p, "submissions_raw", "select", fetchError)
          /\ fault' = [fault EXCEPT ![p] = @ \/ failure # ""]
          /\ IF fetchError # ""
             THEN /\ Respond(p, ErrorResponse(500, fetchError))
                  /\ UNCHANGED rawSubmissionId
             ELSE /\ rawSubmissionId' = [rawSubmissionId EXCEPT ![p] =
                       ExistingRawId(found.rows)]
                  /\ Respond(p, [NoResponse EXCEPT !.status = 200, !.json = TRUE,
                                                   !.ok = TRUE, !.routed = "raw_only"])
  /\ UNCHANGED <<store, request, weddingId, existing, seen, limits>>

\* from("submissions_raw").select("id").eq("wedding_id", ...).eq("provider", "tally")
\*   .eq("provider_submission_id", ...).maybeSingle()
RefetchRaw(p) ==
  /\ pc[p] = "refetch_raw"
  /\ \E failure \in StoreFailures :
       LET found == MaybeSingle(LedgerRowsFor(submissions_raw, weddingId[p],
                                              providerSubmissionIdOf(p)))
           fetchError == IF failure # "" THEN failure ELSE found.error
       IN /\ ops' = Logged(p, "submissions_raw", "select", fetchError)
          /\ fault' = [fault EXCEPT ![p] = @ \/ failure # ""]
          /\ IF fetchError # ""
             THEN /\ Respond(p, ErrorResponse(500, fetchError))
                  /\ UNCHANGED rawSubmissionId
             ELSE /\ rawSubmissionId' = [rawSubmissionId EXCEPT ![p] =
                       ExistingRawId(found.rows)]
                  /\ Route(p)
  /\ UNCHANGED <<store, request, weddingId, existing, seen, limits>>

(***************************************************************************)
(* Specifications                                                          *)
(***************************************************************************)
Next ==
  \E p \in Procs :
    \/ Receive(p)
    \/ LookupWedding(p)
    \/ InsertRaw(p)
    \/ RefetchRaw(p)
    \/ LookupByPhone(p)
    \/ LookupByEmail(p)
    \/ UpdateHousehold(p)
    \/ InsertHousehold(p)
    \/ FetchHousehold(p)
    \/ UpdateGuests(p)

\* Deliveries handled one at a time, of requests of every kind.
Spec == Init /\ [][Next]_vars

\* RSVPs handled one at a time by a store that serves every call.
InitRsvp ==
  /\ InitStore
  /\ InitInvocations
  /\ limits = [inflight |-> 1, total |-> MaxRequests, faults |-> 0,
               pool |-> "rsvp"]

SpecRsvp == InitRsvp /\ [][Next]_vars

\* Deliveries in flight together, in any interleaving, with a store that serves
\* every call.
InitConcurrent ==
  /\ InitStore
  /\ InitInvocations
  /\ limits = [inflight |-> MaxConcurrentRequests, total |-> MaxConcurrentRequests,
               faults |-> 0, pool |-> "concurrent"]

SpecConcurrent == InitConcurrent /\ [][Next]_vars

\* Longer runs of contact sheets, handled one at a time by a store that serves
\* every call.
InitContact ==
  /\ InitStore
  /\ InitInvocations
  /\ limits = [inflight |-> 1, total |-> MaxContactRequests, faults |-> 0,
               pool |-> "contact"]

SpecContact == InitContact /\ [][Next]_vars

\* Deliveries handled one at a time, most of them requests that are turned down.
InitRejected ==
  /\ InitStore
  /\ InitInvocations
  /\ limits = [inflight |-> 1, total |-> MaxRequests, faults |-> MaxFaults,
               pool |-> "rejected"]

SpecRejected == InitRejected /\ [][Next]_vars

\* One contact sheet with a phone_number and nothing else to match on, handled
\* by a store that serves every call: the steps such a request takes.
InitPhone ==
  /\ InitStore
  /\ InitInvocations
  /\ limits = [inflight |-> 1, total |-> 1, faults |-> 0, pool |-> "phone"]

NextPhone ==
  \E p \in Procs :
    \/ Receive(p)
    \/ LookupWedding(p)
    \/ InsertRaw(p)
    \/ LookupByPhone(p)
    \/ InsertHousehold(p)

SpecPhone == InitPhone /\ [][NextPhone]_vars

\* The contact sheet two concurrent deliveries of which both inserted.
RacedRequest ==
  CHOOSE r \in ContactRequests :
    extractProviderSubmissionId(r) = Str("c1") /\ extractPublicCode(r) = Str("TT01")

\* The household one of the two racing invocations inserted as the n-th row.
RacedHousehold(n) ==
  LET payload == ContactPayload(RacedRequest, Str(WeddingA), Num(1))
  IN [c \in DOMAIN payload \cup {"id"} |->
        IF c = "id" THEN HouseholdUuid(n) ELSE payload[c]]

\* The store two concurrent deliveries of RacedRequest leave behind when both
\* looked the phone up before either inserted: one ledger entry and two
\* households holding the phone. Contact sheets then arrive one at a time.
InitDuplicate ==
  /\ submissions_raw = << [id |-> 1, wedding_id |-> WeddingA, provider |-> Provider,
                           provider_submission_id |-> Str("c1"),
                           payload |-> RacedRequest] >>
  /\ households = InitHouseholds \o << RacedHousehold(Len(InitHouseholds) + 1),
                                        RacedHousehold(Len(InitHouseholds) + 2) >>
  /\ guests = InitGuests
  /\ InitInvocations
  /\ limits = [inflight |-> 1, total |-> MaxContactRequests, faults |-> 0,
               pool |-> "duplicate"]

SpecDuplicate == InitDuplicate /\ [][Next]_vars

(***************************************************************************)
(* Properties                                                              *)
(***************************************************************************)
Done(p) == pc[p] = "done"

\* Invocation p resolved its public code to a tenant.
Resolved(p) == weddingId[p] # Null

\* No call of p failed for a reason outside the handler and the tables.
Served(p) == ~fault[p]

\* p and q deliver the same (tenant, provider, provider submission id), the id
\* being present.
SameLedgerKey(p, q) ==
  /\ Resolved(p)
  /\ weddingId[p] = weddingId[q]
  /\ Truthy(providerSubmissionIdOf(p))
  /\ providerSubmissionIdOf(p) = providerSubmissionIdOf(q)

\* The ids of the ledger entries of p's key.
LedgerEntriesOf(p) ==
  {i \in 1..Len(submissions_raw) :
     /\ submissions_raw[i].wedding_id = weddingId[p].s
     /\ submissions_raw[i].provider = Provider
     /\ submissions_raw[i].provider_submission_id = providerSubmissionIdOf(p)}

\* Both p and q carry the id of the one ledger entry of their key.
ShareOneEntry(p, q) ==
  /\ Cardinality(LedgerEntriesOf(p)) = 1
  /\ \A i \in LedgerEntriesOf(p) :
       /\ submissions_raw[i].id = i
       /\ rawSubmissionId[p] = Num(i)
       /\ rawSubmissionId[q] = Num(i)

\* C1 (Spec): when the same (tenant, provider, non-empty provider submission
\* id) is handled twice, one after the other, by a store that serves every call,
\* the ledger holds exactly one entry for that key, both invocations carry its id
\* as rawSubmissionId, and the second does not answer 500.
C1_LedgerIdempotent ==
  \A p, q \in Procs :
    (p < q /\ Done(p) /\ Done(q) /\ Served(p) /\ Served(q) /\ SameLedgerKey(p, q))
      => /\ ShareOneEntry(p, q)
         /\ response[q].status # 500
         /\ response[q].error # ErrDuplicateKey

\* The same payload was delivered twice; the second insert hit the constraint
\* and the second delivery was answered 200.
C1_Witness ==
  \E p, q \in Procs :
    /\ p < q /\ Done(p) /\ Done(q) /\ Served(p) /\ Served(q) /\ SameLedgerKey(p, q)
    /\ request[p] = request[q]
    /\ ops[q][2].error = ErrDuplicateKey
    /\ response[q].status = 200

\* The insert of r was rejected for the key, and r carries the id of the entry
\* of the invocation whose insert went through.
RecoveredWinner(r) ==
  /\ ops[r][2].error = ErrDuplicateKey
  /\ \E w \in Procs :
       /\ w # r /\ SameLedgerKey(w, r)
       /\ Len(ops[w]) >= 2 /\ ops[w][2].error = ""
       /\ rawSubmissionId[r] = rawSubmissionId[w]

\* C2 (SpecConcurrent): for any interleaving of two invocations that deliver
\* the same (tenant, provider, provider submission id), once both have answered
\* exactly one ledger entry of the key exists, both carry its id (the one whose
\* insert was rejected recovered the winner's), and neither answered with the
\* store's duplicate-key failure.
C2_ConcurrentDuplicatesRaceSafely ==
  \A p, q \in Procs :
    (p # q /\ Done(p) /\ Done(q) /\ SameLedgerKey(p, q))
      => /\ ShareOneEntry(p, q)
         /\ \A r \in {p, q} : ~(response[r].status = 500 /\ response[r].error = ErrDuplicateKey)
         /\ \A r \in {p, q} : ops[r][2].error = "" \/ RecoveredWinner(r)
         /\ ops[p][2].error # "" \/ ops[q][2].error # ""

\* The invocation that began first lost the race for the ledger entry: its
\* insert was rejected and it carries the id of the later invocation's row.
C2_Witness ==
  \E p, q \in Procs :
    /\ p < q /\ Done(p) /\ Done(q) /\ SameLedgerKey(p, q)
    /\ ops[p][2].error = ErrDuplicateKey
    /\ ops[q][2].error = ""
    /\ rawSubmissionId[p] = rawSubmissionId[q]
    /\ rawSubmissionId[p] # Null

\* The tables as they were when p was received.
SeenLedger(p) == seen[p][1]
SeenHouseholds(p) == seen[p][2]
SeenGuests(p) == seen[p][3]

\* p is the invocation received last.
Latest(p) == pc[p] # "idle" /\ \A q \in Procs : q > p => pc[q] = "idle"

\* p is an RSVP that resolved its tenant and passes the processor's checks.
ValidRsvp(p) ==
  /\ pc[p] # "idle"
  /\ Resolved(p)
  /\ RouteOf(formTypeOf(p)) = "rsvp"
  /\ RsvpValidationError(request[p]) = ""

\* The house_id of p names a household of another tenant and none of p's.
ForeignHouse(p) ==
  /\ \E i \in 1..Len(SeenHouseholds(p)) :
       /\ SeenHouseholds(p)[i].id = extractHouseId(request[p]).s
       /\ SeenHouseholds(p)[i].wedding_id # weddingId[p].s
  /\ \A i \in 1..Len(SeenHouseholds(p)) :
       SeenHouseholds(p)[i].id = extractHouseId(request[p]).s
         => SeenHouseholds(p)[i].wedding_id # weddingId[p].s

\* The house_id of p names no household of any tenant.
AbsentHouse(p) ==
  \A i \in 1..Len(SeenHouseholds(p)) :
    SeenHouseholds(p)[i].id # extractHouseId(request[p]).s

NotFoundAnswer(p) ==
  response[p] = Rejection(404, MsgHouseholdNotFound, extractHouseId(request[p]))

\* C3 (SpecRsvp): a valid RSVP whose house_id is a well-formed id of a
\* household of another tenant, or of no household at all, is answered, when the
\* store serves its calls, 404 with one and the same message (only the echoed
\* house_id differs), and from its receipt on no household and no guest of any
\* tenant has changed.
C3_TenantIsolation ==
  \A p \in Procs :
    (ValidRsvp(p) /\ (ForeignHouse(p) \/ AbsentHouse(p)))
      => /\ (Done(p) /\ Served(p)) => NotFoundAnswer(p)
         /\ Latest(p) => households = SeenHouseholds(p) /\ guests = SeenGuests(p)
         /\ \A i \in 1..Len(ops[p]) : ops[p][i].table # "guests"

\* One RSVP named a household of another tenant, another a household that does
\* not exist; both got the 404.
C3_Witness ==
  \E p, q \in Procs :
    /\ ValidRsvp(p) /\ ForeignHouse(p) /\ Done(p) /\ NotFoundAnswer(p)
    /\ ValidRsvp(q) /\ AbsentHouse(q) /\ Done(q) /\ NotFoundAnswer(q)
    /\ response[p].error = response[q].error

OptionalRsvpColumns == {"dietary_notes", "questions", "events_attending"}

\* p is the latest invocation and its RSVP update succeeded.
RsvpApplied(p) ==
  /\ Latest(p) /\ Done(p) /\ ValidRsvp(p)
  /\ response[p].status = 200

\* C4 (SpecRsvp): after a successful RSVP, every guest the update targeted
\* (household_id and wedding_id of the submission) keeps, for each of
\* dietary_notes, questions and events_attending that was extracted as null, the
\* value it had before the submission, and holds the extracted value for each
\* that was extracted as non-null; the other guests are as they were.
C4_SparseUpdate ==
  \A p \in Procs :
    RsvpApplied(p)
      => /\ Len(guests) = Len(SeenGuests(p))
         /\ \A i \in 1..Len(guests) :
              IF TargetedGuest(SeenGuests(p)[i], extractHouseId(request[p]), weddingId[p])
              THEN \A c \in OptionalRsvpColumns :
                     guests[i][c] = IF extractRsvpFields(request[p])[c] = Null
                                    THEN SeenGuests(p)[i][c]
                                    ELSE extractRsvpFields(request[p])[c]
              ELSE guests[i] = SeenGuests(p)[i]

\* An RSVP without dietary_notes was applied to a guest that had dietary notes:
\* the status is the new one and the notes are the old ones.
C4_Witness ==
  \E p \in Procs :
    /\ RsvpApplied(p)
    /\ extractRsvpFields(request[p]).dietary_notes = Null
    /\ \E i \in 1..Len(guests) :
         /\ TargetedGuest(guests[i], extractHouseId(request[p]), weddingId[p])
         /\ SeenGuests(p)[i].dietary_notes = Str("Vegan")
         /\ guests[i].dietary_notes = Str("Vegan")
         /\ guests[i].rsvp_status = Str("yes")
         /\ SeenGuests(p)[i].rsvp_status # Str("yes")

IsPost(p) == pc[p] # "idle" /\ request[p].method = "POST"

\* p answered with the client-error status.
ClientError(p) == Done(p) /\ response[p].status = 400

\* The public code of p is missing: not a string, or blank.
MissingCode(p) ==
  /\ IsPost(p)
  /\ ~IsStr(publicCodeOf(p)) \/ Len(Trim(publicCodeOf(p).s)) = 0

\* The public code of p is a string that names no wedding with a well-formed id.
UnknownCode(p) ==
  /\ IsPost(p) /\ ~MissingCode(p)
  /\ \A i \in 1..Len(weddings) :
       weddings[i].public_code = publicCodeOf(p).s => ~isUuid(weddings[i].wedding_id)

\* p is a contact sheet with neither a phone of ten digits nor an email.
ContactWithoutKey(p) ==
  /\ Resolved(p) /\ RouteOf(formTypeOf(p)) = "contact_sheet"
  /\ ~Truthy(phoneNormalizedOf(request[p]))
  /\ ~Truthy(emailNormalizedOf(request[p]))

\* The answer to rsvp_status is none of yes, y, no, n (trimmed, any case).
InvalidStatusText(body) ==
  LET text == extractRsvpFields(body).rsvp_status
  IN ~IsStr(text) \/ ToLowerCase(Trim(text.s)) \notin {"yes", "y", "no", "n"}

RsvpBadHouse(p) ==
  /\ Resolved(p) /\ RouteOf(formTypeOf(p)) = "rsvp"
  /\ ~isUuid(extractHouseId(request[p]))

RsvpBadStatus(p) ==
  /\ Resolved(p) /\ RouteOf(formTypeOf(p)) = "rsvp"
  /\ isUuid(extractHouseId(request[p]))
  /\ InvalidStatusText(request[p])

\* p fails one of the validations.
Invalid(p) ==
  MissingCode(p) \/ UnknownCode(p) \/ ContactWithoutKey(p) \/ RsvpBadHouse(p)
    \/ RsvpBadStatus(p)

\* The ledger entry of p, had it been appended to the ledger p saw.
LedgerEntryOf(p) ==
  [id |-> Len(SeenLedger(p)) + 1, wedding_id |-> weddingId[p].s, provider |-> Provider,
   provider_submission_id |-> providerSubmissionIdOf(p), payload |-> request[p]]

DomainTables == {"households", "guests"}

ProcessorLabels ==
  {"hh_by_phone", "hh_by_email", "hh_update", "hh_insert", "rsvp_fetch", "rsvp_update"}

\* p is in a processor, has called households or guests, or has answered with
\* a routed response.
Processing(p) ==
  \/ pc[p] \in ProcessorLabels
  \/ \E i \in 1..Len(ops[p]) : ops[p][i].table \in DomainTables
  \/ Done(p) /\ response[p].routed \in {"contact_sheet", "rsvp", "raw_only"}

\* The second store call of p was the insert into the ledger.
InsertAttempted(p) ==
  /\ Len(ops[p]) >= 2
  /\ ops[p][2].table = "submissions_raw"
  /\ ops[p][2].op = "insert"

\* The first two store calls of p resolved the tenant and put the payload on the
\* ledger, or got the store's word that the ledger has it; p then asked for the
\* entry if it has a submission id to ask with.
Ledgered(p) ==
  /\ Resolved(p)
  /\ InsertAttempted(p)
  /\ ops[p][1] = [table |-> "weddings", op |-> "select", error |-> ""]
  /\ \/ ops[p][2].error = ""
     \/ /\ ops[p][2].error \in {ErrDuplicateKey, ErrUniqueOther}
        /\ Truthy(providerSubmissionIdOf(p))
             => /\ Len(ops[p]) >= 3
                /\ ops[p][3] = [table |-> "submissions_raw", op |-> "select", error |-> ""]

\* The ledger entry p carries forward is of p's tenant and is p's payload or has
\* p's submission id.
CarriesLedgerEntry(p) ==
  \E i \in 1..Len(submissions_raw) :
    /\ rawSubmissionId[p] = Num(i)
    /\ submissions_raw[i].wedding_id = weddingId[p].s
    /\ \/ submissions_raw[i].payload = request[p]
       \/ submissions_raw[i].provider_submission_id = providerSubmissionIdOf(p)

\* C6 (Spec): an invocation makes no call on households or guests, is in no
\* processor and has given no routed answer (contact_sheet, rsvp, raw_only) unless
\* its first store call resolved the public code and its second was the ledger
\* insert, which succeeded or was answered as a duplicate and, when there is a
\* submission id, followed by the lookup of the existing entry; when the store
\* failed no call for a reason of its own the invocation
\* carries the id of a ledger entry of its own; and every invocation whose code
\* resolved has, once past the insert, attempted it, whatever the form type.
C6_LedgerFirst ==
  \A p \in Procs :
    /\ Processing(p)
         => /\ Ledgered(p)
            /\ \A i \in 1..Len(ops[p]) : ops[p][i].table \in DomainTables => i >= 3
            /\ Served(p) => CarriesLedgerEntry(p)
    /\ Resolved(p) => (pc[p] = "insert_raw" \/ InsertAttempted(p))
    /\ (Done(p) /\ ~Resolved(p)) => \A i \in 1..Len(ops[p]) : ops[p][i].table = "weddings"

\* A contact sheet was routed and answered after the tenant lookup, the ledger
\* insert and then the households calls, in this order.
C6_Witness ==
  \E p \in Procs :
    /\ Done(p) /\ response[p].routed = "contact_sheet"
    /\ Ledgered(p) /\ ops[p][2].error = ""
    /\ Len(ops[p]) >= 4
    /\ ops[p][3].table = "households"
    /\ CarriesLedgerEntry(p)

\* The form type of p is absent or neither 'contact_sheet' nor 'rsvp'.
OtherFormType(p) ==
  /\ pc[p] # "idle"
  /\ formTypeOf(p) \notin {Str("contact_sheet"), Str("rsvp")}

\* The ledger insert of p succeeded, or was rejected as a duplicate and the
\* existing entry was looked up.
LedgerWritten(p) ==
  /\ Ledgered(p)
  /\ ops[p][2].error \in {"", ErrDuplicateKey}

RawOnlyAnswer(p) ==
  /\ response[p].status = 200
  /\ response[p].ok
  /\ response[p].routed = "raw_only"

\* C7 (Spec): a POST whose public code resolved, whose ledger write succeeded
\* or was an idempotent duplicate, and whose form_type is absent or anything but
\* 'contact_sheet' and 'rsvp', is answered 200 with ok = true and routed =
\* 'raw_only'; it makes no call on households or guests, and those tables are as
\* they were when it was received.
C7_UnknownFormTypeIsRawOnly ==
  \A p \in Procs :
    OtherFormType(p)
      => /\ (Done(p) /\ LedgerWritten(p)) => RawOnlyAnswer(p)
         /\ \A i \in 1..Len(ops[p]) : ops[p][i].table \notin DomainTables
         /\ Latest(p) => households = SeenHouseholds(p) /\ guests = SeenGuests(p)

\* A submission of form type 'survey' arrived a second time under the same
\* submission id and was answered raw_only.
C7_Witness ==
  \E p \in Procs :
    /\ Done(p) /\ OtherFormType(p) /\ formTypeOf(p) = Str("survey")
    /\ LedgerWritten(p) /\ ops[p][2].error = ErrDuplicateKey
    /\ RawOnlyAnswer(p)

NoDomainCall(p) == \A i \in 1..Len(ops[p]) : ops[p][i].table \notin DomainTables

\* C8 (SpecContact): a contact sheet whose phone normalizes to null and whose
\* email normalizes to null or to the empty string is answered 400 with the
\* missing-contact message, after the tenant lookup and the ledger insert and
\* nothing else: it makes no call on households, and no household is inserted
\* or updated.
C8_MatcherPrecondition ==
  \A p \in Procs :
    ContactWithoutKey(p)
      => /\ pc[p] \notin ProcessorLabels
         /\ NoDomainCall(p)
         /\ Latest(p) => households = SeenHouseholds(p)
         /\ (Done(p) /\ LedgerWritten(p))
              => response[p] = ErrorResponse(400, MsgMissingContact)

\* A contact sheet with a phone of three digits and a blank email was answered
\* 400 after two store calls.
C8_Witness ==
  \E p \in Procs :
    /\ Done(p) /\ ContactWithoutKey(p)
    /\ extractContactSheetFields(request[p]).phone_raw = Str("123")
    /\ extractContactSheetFields(request[p]).email_raw = Str(" ")
    /\ response[p] = ErrorResponse(400, MsgMissingContact)
    /\ Len(ops[p]) = 2

\* C9 (SpecRsvp): an RSVP whose house_id is not a well-formed UUID is answered
\* 400 with the invalid-house message whatever its status; one whose house_id is
\* well formed and whose status is none of yes/y/no/n (or is absent) is answered
\* 400 with the invalid-status message; neither makes any call on households or
\* guests, and both tables are as they were when the RSVP was received.
C9_InvalidRsvpNotApplied ==
  \A p \in Procs :
    /\ (RsvpBadHouse(p) /\ Done(p) /\ LedgerWritten(p))
         => response[p] = Rejection(400, MsgInvalidHouse, extractHouseId(request[p]))
    /\ (RsvpBadStatus(p) /\ Done(p) /\ LedgerWritten(p))
         => response[p] = Rejection(400, MsgInvalidStatus,
                                    extractRsvpFields(request[p]).rsvp_status)
    /\ (RsvpBadHouse(p) \/ RsvpBadStatus(p))
         => /\ pc[p] \notin ProcessorLabels
            /\ NoDomainCall(p)
            /\ Latest(p) => households = SeenHouseholds(p) /\ guests = SeenGuests(p)

\* An RSVP with a malformed house_id and the status 'maybe' was turned down for
\* its house_id, and one with a household of its tenant and no status for its
\* status.
C9_Witness ==
  \E p, q \in Procs :
    /\ Done(p) /\ RsvpBadHouse(p) /\ InvalidStatusText(request[p])
    /\ response[p].status = 400 /\ response[p].error = MsgInvalidHouse
    /\ Done(q) /\ RsvpBadStatus(q) /\ extractRsvpFields(request[q]).rsvp_status = Null
    /\ response[q].status = 400 /\ response[q].error = MsgInvalidStatus

\* p is a contact sheet that reached the matcher with the normalized phone.
ContactWithPhone(p) ==
  /\ Done(p) /\ Resolved(p)
  /\ RouteOf(formTypeOf(p)) = "contact_sheet"
  /\ Truthy(phoneNormalizedOf(request[p]))

\* C10 as stated: two contact sheets of one tenant with the same normalized
\* phone, handled one right after the other, are both answered 200 and report
\* the same household id, whatever the store was before them.
C10_DedupByPhone ==
  \A p, q \in Procs :
    (/\ q = p + 1
     /\ ContactWithPhone(p) /\ ContactWithPhone(q)
     /\ weddingId[p] = weddingId[q]
     /\ phoneNormalizedOf(request[p]) = phoneNormalizedOf(request[q]))
      => /\ response[p].status = 200
         /\ response[q].status = 200
         /\ response[p].household_id = response[q].household_id

\* p is a contact sheet that was answered and carries a usable email.
ContactWithEmail(p) ==
  /\ Done(p) /\ Resolved(p)
  /\ RouteOf(formTypeOf(p)) = "contact_sheet"
  /\ Truthy(emailNormalizedOf(request[p]))

\* C11 as stated: two contact sheets of one tenant with the same normalized
\* email and different normalized phones, handled one right after the other,
\* are both answered 200 and report the same household id, whatever the store
\* was before them.
C11_DedupByEmail ==
  \A p, q \in Procs :
    (/\ q = p + 1
     /\ ContactWithEmail(p) /\ ContactWithEmail(q)
     /\ weddingId[p] = weddingId[q]
     /\ emailNormalizedOf(request[p]) = emailNormalizedOf(request[q])
     /\ phoneNormalizedOf(request[p]) # phoneNormalizedOf(request[q]))
      => /\ response[p].status = 200
         /\ response[q].status = 200
         /\ response[p].household_id = response[q].household_id

\* The guests the RSVP of p targets, by position in the table.
TargetsOf(p) ==
  {i \in 1..Len(guests) :
     TargetedGuest(guests[i], extractHouseId(request[p]), weddingId[p])}

\* C12 as stated: the update a successful RSVP writes to each targeted guest
\* sets rsvp_status to the normalized status and last_submission_id to the
\* rawSubmissionId of the request.
C12_RsvpStampsSubmission ==
  \A p \in Procs :
    RsvpApplied(p)
      => /\ \A i \in TargetsOf(p) : guests[i].rsvp_status = rsvpStatusOf(request[p])
         /\ "rsvp_status" \in DOMAIN RsvpUpdatePayload(request[p])
         /\ "last_submission_id" \in DOMAIN RsvpUpdatePayload(request[p])

\* C13 as stated: after a successful RSVP, every targeted guest holds the
\* extracted party_size when one was extracted, and the party_size it had
\* before when none was.
C13_PartySizeSparse ==
  \A p \in Procs :
    RsvpApplied(p)
      => \A i \in TargetsOf(p) :
           guests[i].party_size =
             IF extractRsvpFields(request[p]).party_size = Null
             THEN SeenGuests(p)[i].party_size
             ELSE extractRsvpFields(request[p]).party_size

\* Call i of p is the ledger insert, answered with a failure the handler takes
\* for the duplicate key.
RecognisedDuplicate(p, i) ==
  /\ i = 2
  /\ ops[p][i].table = "submissions_raw" /\ ops[p][i].op = "insert"
  /\ ops[p][i].error \in {ErrDuplicateKey, ErrUniqueOther}

\* C14 (Spec): when a store call of an invocation (weddings lookup, ledger
\* insert, ledger re-fetch, households lookup, insert or update, guests update)
\* comes back with a failure that is not the ledger insert's failure taken for a
\* duplicate key, that call is the invocation's last one and the invocation has
\* answered 500, ok = false, with the store's message as error.
C14_StoreFailuresAreFatal ==
  \A p \in Procs :
    \A i \in 1..Len(ops[p]) :
      (ops[p][i].error # "" /\ ~RecognisedDuplicate(p, i))
        => /\ i = Len(ops[p])
           /\ Done(p)
           /\ response[p].status = 500
           /\ ~response[p].ok
           /\ response[p].error = ops[p][i].error

\* The guests update of an RSVP failed as the fourth call: the answer is 500
\* with the store's message and the guests are as they were.
C14_Witness ==
  \E p \in Procs :
    /\ Latest(p) /\ Done(p) /\ Len(ops[p]) = 4
    /\ ops[p][4] = [table |-> "guests", op |-> "update", error |-> ErrTimeout]
    /\ response[p].status = 500 /\ response[p].error = ErrTimeout
    /\ guests = SeenGuests(p)

\* The public code of p is absent, not a string, or made of white space only.
CodeAbsentOrBlank(p) ==
  /\ IsPost(p)
  /\ IsStr(publicCodeOf(p))
       => \A i \in 1..Len(publicCodeOf(p).s) : CharAt(publicCodeOf(p).s, i) \in WhiteChars

\* The tenant ids of table weddings that are well formed.
WellFormedTenants == {WeddingA, WeddingB}

\* The public code of p is a string that matches no row of weddings, or a row
\* whose wedding_id is not well formed.
CodeOfNoTenant(p) ==
  /\ IsPost(p) /\ ~CodeAbsentOrBlank(p)
  /\ \A i \in 1..Len(weddings) :
       weddings[i].public_code = publicCodeOf(p).s
         => weddings[i].wedding_id \notin {Str(t) : t \in WellFormedTenants}

\* C15 (Spec): a POST whose public code is missing, not a string or blank is
\* answered 400 (missing code) without any store call; one whose code matches
\* no row of weddings, or a row whose wedding_id is not a well-formed UUID, is
\* answered 400 (unknown code) after the weddings lookup alone, when that
\* lookup is served; in both cases ledger, households and guests are as they
\* were when the request was received.
C15_UnknownCode ==
  \A p \in Procs :
    /\ CodeAbsentOrBlank(p)
         => /\ Done(p) /\ ops[p] = <<>>
            /\ response[p] = Rejection(400, MsgMissingCode, publicCodeOf(p))
    /\ CodeOfNoTenant(p)
         => /\ Len(ops[p]) <= 1
            /\ \A i \in 1..Len(ops[p]) : ops[p][i].table = "weddings"
            /\ (Done(p) /\ Served(p))
                 => response[p] = Rejection(400, MsgUnknownCode, publicCodeOf(p))
    /\ ((CodeAbsentOrBlank(p) \/ CodeOfNoTenant(p)) /\ Latest(p)) => store = seen[p]

\* A code that is a number was answered 400, and last a code whose wedding has
\* a malformed id was, with the store as it was at its receipt.
C15_Witness ==
  \E p, q \in Procs :
    /\ Done(p) /\ CodeAbsentOrBlank(p) /\ IsNum(publicCodeOf(p))
    /\ response[p].status = 400
    /\ Latest(q) /\ Done(q) /\ CodeOfNoTenant(q) /\ publicCodeOf(q) = Str("OLD1")
    /\ response[q].status = 400 /\ response[q].error = MsgUnknownCode
    /\ store = seen[q]

\* The digits of s, in order.
RECURSIVE DigitsOf(_)
DigitsOf(s) ==
  IF s = "" THEN ""
  ELSE DigitsOf(SubSeq(s, 1, Len(s) - 1))
       \o (IF CharAt(s, Len(s)) \in DigitChars THEN CharAt(s, Len(s)) ELSE "")

\* The reference rule: with d the digits of the input, absent when the input
\* is absent or d has fewer than 10 digits, '+1' and d when d has 10 digits,
\* '+' and d when it has 11 or more.
PhoneRule(v) ==
  IF IsNull(v) THEN Null
  ELSE LET d == DigitsOf(ToStr(v))
       IN IF Len(d) < 10 THEN Null
          ELSE IF Len(d) = 10 THEN Str("+1" \o d)
          ELSE Str("+" \o d)

\* The phone_number p submitted.
PhoneRawOf(p) == extractContactSheetFields(request[p]).phone_raw

\* C16 (SpecPhone): for every phone_number submitted (no value, a number, any
\* string over PhoneAlphabet up to MaxPhoneLength, written phone numbers),
\* normalizePhone gives what the reference rule gives; a contact sheet whose
\* phone the rule makes absent is answered 400, and the household inserted for
\* any other holds the rule's result as phone_normalized.
C16_PhoneNormalization ==
  \A p \in Procs :
    pc[p] # "idle"
      => /\ normalizePhone(PhoneRawOf(p)) = PhoneRule(PhoneRawOf(p))
         /\ Done(p)
              => IF PhoneRule(PhoneRawOf(p)) = Null
                 THEN response[p] = ErrorResponse(400, MsgMissingContact)
                 ELSE /\ response[p].action = "inserted"
                      /\ households[Len(households)].phone_raw = PhoneRawOf(p)
                      /\ households[Len(households)].phone_normalized
                           = PhoneRule(PhoneRawOf(p))

\* '555-123-4567' was submitted and the household inserted for it holds
\* '+15551234567'.
C16_Witness ==
  \E p \in Procs :
    /\ Done(p) /\ PhoneRawOf(p) = Str("555-123-4567")
    /\ response[p].action = "inserted"
    /\ households[Len(households)].phone_normalized = Str("+15551234567")
    /\ normalizePhone(Str("14155550123")) = Str("+14155550123")
    /\ normalizePhone(Str("123")) = Null

\* C17 as stated: with contact sheets handled one at a time, from a store in
\* which no two households of a tenant share a normalized email, no two
\* households of one tenant hold the same non-absent normalized email.
C17_EmailUnique ==
  \A i, j \in 1..Len(households) :
    (/\ i # j
     /\ households[i].wedding_id = households[j].wedding_id
     /\ Truthy(households[i].email_normalized))
      => households[i].email_normalized # households[j].email_normalized

\* p is a contact sheet with a usable phone whose lookups found no household and
\* failed in no way, and which has been answered 200.
InsertedUnmatched(p) ==
  /\ ContactWithPhone(p)
  /\ existing[p] = Null
  /\ response[p].status = 200

\* The households of p's tenant that hold p's normalized phone.
HoldersOfPhone(p) ==
  {i \in 1..Len(households) :
     /\ households[i].wedding_id = weddingId[p].s
     /\ households[i].phone_normalized = phoneNormalizedOf(request[p])}

\* C18 (SpecConcurrent): when two invocations for one tenant and one normalized
\* phone have both looked the phone up and found no household, both insert:
\* once both have answered, both answers say 'inserted', they name two distinct
\* households, and both households hold that tenant and that normalized phone.
C18_CheckThenWriteRace ==
  \A p, q \in Procs :
    (/\ p # q
     /\ InsertedUnmatched(p) /\ InsertedUnmatched(q)
     /\ weddingId[p] = weddingId[q]
     /\ phoneNormalizedOf(request[p]) = phoneNormalizedOf(request[q]))
      => /\ response[p].action = "inserted"
         /\ response[q].action = "inserted"
         /\ response[p].household_id # response[q].household_id
         /\ \A r \in {p, q} :
              \E i \in HoldersOfPhone(p) : Str(households[i].id) = response[r].household_id
         /\ Cardinality(HoldersOfPhone(p)) >= 2

\* Two contact sheets with one phone that no household held were in flight
\* together; both were answered 'inserted' and two households hold the phone.
C18_Witness ==
  \E p, q \in Procs :
    /\ p < q
    /\ InsertedUnmatched(p) /\ InsertedUnmatched(q)
    /\ weddingId[p] = weddingId[q]
    /\ phoneNormalizedOf(request[p]) = phoneNormalizedOf(request[q])
    /\ HouseholdsByPhone(SeenHouseholds(p), weddingId[p], phoneNormalizedOf(request[p])) = <<>>
    /\ HouseholdsByPhone(SeenHouseholds(q), weddingId[q], phoneNormalizedOf(request[q])) = <<>>
    /\ response[p].action = "inserted" /\ response[q].action = "inserted"
    /\ Cardinality(HoldersOfPhone(p)) = 2

\* The households p's lookup by phone would select in the store p found; none
\* when p has no usable phone, for which the lookup is not made.
PhoneMatches(p) ==
  IF Truthy(phoneNormalizedOf(request[p]))
  THEN HouseholdsByPhone(SeenHouseholds(p), weddingId[p], phoneNormalizedOf(request[p]))
  ELSE <<>>

\* Likewise for the email.
EmailMatches(p) ==
  IF Truthy(emailNormalizedOf(request[p]))
  THEN HouseholdsByEmail(SeenHouseholds(p), weddingId[p], emailNormalizedOf(request[p]))
  ELSE <<>>

\* The match the matcher is to act on: the phone's if there is one, else the
\* email's.
Matched(p) == IF PhoneMatches(p) # <<>> THEN PhoneMatches(p) ELSE EmailMatches(p)

\* p is the contact sheet handled last, it carries a contact key, no call of it
\* failed and the lookup that decides found at most one household.
Matching(p) ==
  /\ Latest(p) /\ Done(p) /\ Resolved(p) /\ Served(p)
  /\ RouteOf(formTypeOf(p)) = "contact_sheet"
  /\ Truthy(phoneNormalizedOf(request[p])) \/ Truthy(emailNormalizedOf(request[p]))
  /\ Len(Matched(p)) <= 1

\* The record a household becomes when p's fields are written over it: every
\* column but the id is the submitted one, absent values included.
Overwritten(h, p) ==
  LET payload == ContactPayload(request[p], weddingId[p], rawSubmissionId[p])
  IN [c \in DOMAIN h |-> IF c = "id" THEN h.id ELSE payload[c]]

\* C19 (SpecContact): a contact sheet with a contact key updates the household
\* of its tenant that matches its normalized phone, and only when none does the
\* one that matches its normalized email; the updated household holds every
\* submitted contact and address field and the submission's ledger id, every
\* other household is as it was, none is added and the answer is 'updated' with
\* the matched id. When neither lookup matches, exactly one household is added,
\* for the resolved tenant and with the submitted fields, every earlier one is
\* as it was and the answer is 'inserted' with the new id.
C19_MatchPrecedence ==
  \A p \in Procs :
    Matching(p)
      => /\ response[p].status = 200
         /\ rawSubmissionId[p] # Null
         /\ IF Matched(p) # <<>>
            THEN /\ response[p].action = "updated"
                 /\ response[p].household_id = Str(Matched(p)[1].id)
                 /\ Len(households) = Len(SeenHouseholds(p))
                 /\ \A i \in 1..Len(households) :
                      households[i] =
                        IF SeenHouseholds(p)[i].id = Matched(p)[1].id
                        THEN Overwritten(SeenHouseholds(p)[i], p)
                        ELSE SeenHouseholds(p)[i]
            ELSE /\ response[p].action = "inserted"
                 /\ Len(households) = Len(SeenHouseholds(p)) + 1
                 /\ SubSeq(households, 1, Len(SeenHouseholds(p))) = SeenHouseholds(p)
                 /\ LET new == households[Len(households)]
                    IN /\ response[p].household_id = Str(new.id)
                       /\ new.wedding_id = weddingId[p].s
                       /\ new = Overwritten(new, p)
                       /\ \A i \in 1..Len(SeenHouseholds(p)) :
                            SeenHouseholds(p)[i].id # new.id

\* A contact sheet whose phone matched one household while its email matched
\* another was answered 'updated' with the first; the first lost a field the
\* sheet did not carry or changed its email, the second is as it was.
C19_Witness ==
  \E p \in Procs :
    /\ Matching(p)
    /\ Len(PhoneMatches(p)) = 1 /\ Len(EmailMatches(p)) = 1
    /\ PhoneMatches(p)[1].id # EmailMatches(p)[1].id
    /\ response[p].action = "updated"
    /\ response[p].household_id = Str(PhoneMatches(p)[1].id)
    /\ \E i \in 1..Len(households) :
         /\ households[i].id = PhoneMatches(p)[1].id
         /\ households[i].email_normalized # PhoneMatches(p)[1].email_normalized
    /\ \E i \in 1..Len(households) : households[i] = EmailMatches(p)[1]

\* Guest g belongs to the household and the tenant of p's RSVP.
UnderHousehold(g, p) ==
  /\ g.household_id = extractHouseId(request[p]).s
  /\ g.wedding_id = weddingId[p].s

\* Every guest's tenant is the tenant of the household it refers to.
GuestsFollowHouseholds ==
  \A i \in 1..Len(guests) :
    \E j \in 1..Len(households) :
      /\ households[j].id = guests[i].household_id
      /\ households[j].wedding_id = guests[i].wedding_id

\* C20 (SpecRsvp): after a successful RSVP for household H of tenant T, every
\* guest whose household is H and whose tenant is T holds the submitted status,
\* every other guest is as it was, every household is as it was, no guest was
\* added or removed and no guest changed its id, household or tenant; and at
\* all times every guest's tenant is its household's tenant.
C20_RsvpFanOutFrame ==
  /\ GuestsFollowHouseholds
  /\ \A p \in Procs :
       RsvpApplied(p)
         => /\ households = SeenHouseholds(p)
            /\ Len(guests) = Len(SeenGuests(p))
            /\ \A i \in 1..Len(guests) :
                 /\ guests[i].id = SeenGuests(p)[i].id
                 /\ guests[i].household_id = SeenGuests(p)[i].household_id
                 /\ guests[i].wedding_id = SeenGuests(p)[i].wedding_id
                 /\ IF UnderHousehold(SeenGuests(p)[i], p)
                    THEN guests[i].rsvp_status = rsvpStatusOf(request[p])
                    ELSE guests[i] = SeenGuests(p)[i]

\* A successful RSVP changed the status of two guests of its household while
\* the store held a guest of another household of the tenant and a guest of
\* another tenant.
C20_Witness ==
  \E p \in Procs :
    /\ RsvpApplied(p)
    /\ \E i, j \in 1..Len(guests) :
         /\ i # j
         /\ UnderHousehold(SeenGuests(p)[i], p) /\ UnderHousehold(SeenGuests(p)[j], p)
         /\ guests[i].rsvp_status # SeenGuests(p)[i].rsvp_status
         /\ guests[j].rsvp_status # SeenGuests(p)[j].rsvp_status
    /\ \E i \in 1..Len(guests) :
         /\ guests[i].wedding_id = weddingId[p].s
         /\ guests[i].household_id # extractHouseId(request[p]).s
    /\ \E i \in 1..Len(guests) : guests[i].wedding_id # weddingId[p].s

\* C21 (SpecContact): with contact sheets handled one at a time, from a store
\* in which no two households of a tenant share a normalized phone, no two
\* households of one tenant hold the same non-absent normalized phone.
C21_PhoneUnique ==
  \A i, j \in 1..Len(households) :
    (/\ i # j
     /\ households[i].wedding_id = households[j].wedding_id
     /\ Truthy(households[i].phone_normalized))
      => households[i].phone_normalized # households[j].phone_normalized

\* Two contact sheets of one tenant with one normalized phone, written in two
\* ways, were handled one after the other; the first added a household, the
\* second was merged into it and one household holds the phone.
C21_Witness ==
  \E p, q \in Procs :
    /\ p < q
    /\ ContactWithPhone(p) /\ ContactWithPhone(q)
    /\ weddingId[p] = weddingId[q]
    /\ phoneNormalizedOf(request[p]) = phoneNormalizedOf(request[q])
    /\ extractContactSheetFields(request[p]).phone_raw
         # extractContactSheetFields(request[q]).phone_raw
    /\ response[p].action = "inserted"
    /\ response[q].action = "updated"
    /\ response[q].household_id = response[p].household_id
    /\ Cardinality(HoldersOfPhone(q)) = 1

\* q is the contact sheet handled last and delivers again, right after it, the
\* submission p delivered and was answered 200 for; the ledger refused q's
\* entry as a duplicate.
Redelivered(p, q) ==
  /\ q = p + 1
  /\ Latest(q) /\ Done(q) /\ Done(p)
  /\ request[q] = request[p]
  /\ Resolved(p)
  /\ RouteOf(formTypeOf(p)) = "contact_sheet"
  /\ response[p].status = 200
  /\ Served(q)
  /\ Len(ops[q]) >= 2
  /\ ops[q][2] = [table |-> "submissions_raw", op |-> "insert", error |-> ErrDuplicateKey]

\* C22 (SpecContact): a contact sheet delivered a second time, right after its
\* first delivery succeeded, and refused by the ledger as a duplicate is still
\* handed to the household matcher: it is answered 200 with action 'updated'
\* and the household id its first delivery reported, it carries the ledger id
\* of the first delivery, and it adds no household.
C22_RedeliveryReprocessed ==
  \A p, q \in Procs :
    Redelivered(p, q)
      => /\ response[q].status = 200
         /\ response[q].routed = "contact_sheet"
         /\ response[q].action = "updated"
         /\ response[q].household_id = response[p].household_id
         /\ rawSubmissionId[q] = rawSubmissionId[p]
         /\ Len(households) = Len(SeenHouseholds(q))
         /\ \E i \in 1..Len(ops[q]) :
              ops[q][i] = [table |-> "households", op |-> "update", error |-> ""]

\* A contact sheet that added a household was delivered again: the ledger
\* refused it, the matcher ran and the household was reported as 'updated'.
C22_Witness ==
  \E p, q \in Procs :
    /\ Redelivered(p, q)
    /\ response[p].action = "inserted"
    /\ response[q].action = "updated"
    /\ Len(SeenHouseholds(q)) = Len(SeenHouseholds(p)) + 1
    /\ Len(households) = Len(SeenHouseholds(q))

\* p was handed to the household matcher or to the RSVP applier.
Invoked(p) ==
  \/ pc[p] \in ProcessorLabels
  \/ \E i \in 1..Len(ops[p]) : ops[p][i].table \in DomainTables
  \/ Done(p) /\ response[p].routed \in {"contact_sheet", "rsvp"}

\* Household h refers to no ledger entry or to one of its own tenant.
RefersToOwnLedger(h) ==
  h.last_submission_id # Null
    => \E i \in 1..Len(submissions_raw) :
         /\ h.last_submission_id = Num(submissions_raw[i].id)
         /\ submissions_raw[i].wedding_id = h.wedding_id

\* C23 as stated: whenever the household matcher or the RSVP applier is
\* invoked, the rawSubmissionId handed to it is non-null and is the id of a
\* ledger entry of the resolved tenant, and every household the handler wrote
\* refers to a ledger entry of its tenant.
C23_LedgerReference ==
  /\ \A p \in Procs :
       Invoked(p)
         => /\ rawSubmissionId[p] # Null
            /\ \E i \in 1..Len(submissions_raw) :
                 /\ rawSubmissionId[p] = Num(submissions_raw[i].id)
                 /\ submissions_raw[i].wedding_id = weddingId[p].s
  /\ \A i \in 1..Len(households) :
       /\ RefersToOwnLedger(households[i])
       /\ (\E p \in Procs : /\ Done(p)
                            /\ response[p].action \in {"inserted", "updated"}
                            /\ response[p].household_id = Str(households[i].id))
            => households[i].last_submission_id # Null

\* p is an RSVP that was answered 200.
RsvpSucceeded(p) ==
  /\ Done(p) /\ Resolved(p)
  /\ RouteOf(formTypeOf(p)) = "rsvp"
  /\ response[p].status = 200

\* An RSVP for the household of p is still being handled.
RsvpInProgressFor(p) ==
  \E q \in Procs :
    /\ pc[q] \notin {"idle", "done"}
    /\ RouteOf(formTypeOf(q)) = "rsvp"
    /\ extractHouseId(request[q]) = extractHouseId(request[p])

\* C24 (SpecConcurrent): when an RSVP for household H of tenant T has
\* succeeded and no RSVP for H is still being handled, all guests of H in T
\* hold one rsvp_status, the normalized status of one of the RSVPs for H in T
\* that succeeded, however the invocations were interleaved.
C24_RsvpConsistentHousehold ==
  \A p \in Procs :
    (RsvpSucceeded(p) /\ ~RsvpInProgressFor(p))
      => \E r \in Procs :
           /\ RsvpSucceeded(r)
           /\ weddingId[r] = weddingId[p]
           /\ extractHouseId(request[r]) = extractHouseId(request[p])
           /\ \A i \in 1..Len(guests) :
                UnderHousehold(guests[i], p)
                  => guests[i].rsvp_status = rsvpStatusOf(request[r])

\* Two RSVPs for one household with different answers were in flight together
\* (both were received before either changed a guest); both succeeded and the
\* two guests of the household hold the answer of the one received first.
C24_Witness ==
  \E p, q \in Procs :
    /\ p < q
    /\ RsvpSucceeded(p) /\ RsvpSucceeded(q)
    /\ weddingId[p] = weddingId[q]
    /\ extractHouseId(request[p]) = extractHouseId(request[q])
    /\ rsvpStatusOf(request[p]) # rsvpStatusOf(request[q])
    /\ SeenGuests(p) = SeenGuests(q)
    /\ Cardinality({i \in 1..Len(guests) : UnderHousehold(guests[i], p)}) >= 2
    /\ \A i \in 1..Len(guests) :
         UnderHousehold(guests[i], p) => guests[i].rsvp_status = rsvpStatusOf(request[p])

\* The lookup p makes selects more than one household: the lookup by phone,
\* or the lookup by email when it is made, that is when p has no usable phone
\* or the phone matched nothing.
HitsDuplicateKey(p) ==
  \/ Len(PhoneMatches(p)) > 1
  \/ PhoneMatches(p) = <<>> /\ Len(EmailMatches(p)) > 1

\* p wrote to the households table.
WroteHousehold(p) ==
  \E i \in 1..Len(ops[p]) :
    ops[p][i].table = "households" /\ ops[p][i].op \in {"insert", "update"}

\* C25 (SpecDuplicate): once two households of a tenant hold one normalized
\* phone or one normalized email, a contact sheet of that tenant whose lookup
\* selects on that key is answered 500 with the lookup's error, makes no
\* insert and no update of a household, and leaves every household as it was.
C25_DuplicateKeyFails ==
  \A p \in Procs :
    (/\ Latest(p) /\ Done(p) /\ Resolved(p)
     /\ RouteOf(formTypeOf(p)) = "contact_sheet"
     /\ HitsDuplicateKey(p))
      => /\ response[p].status = 500
         /\ response[p].error = ErrMultipleRows
         /\ ~WroteHousehold(p)
         /\ households = SeenHouseholds(p)

\* A contact sheet whose phone two households hold was answered 500; later
\* a sheet gave a second household an email another one held, and the sheet
\* handled last, which has no phone and carries that email, was answered 500.
C25_Witness ==
  \E p, q \in Procs :
    /\ q < p
    /\ Done(q) /\ Len(PhoneMatches(q)) > 1 /\ response[q].status = 500
    /\ Latest(p) /\ Done(p)
    /\ PhoneMatches(p) = <<>>
    /\ Len(EmailMatches(p)) > 1
    /\ response[p].status = 500
    /\ households = SeenHouseholds(p)
====
